---- MODULE Spec2Model ----
(***************************************************************************)
(* Bitstream generation for routing multiplexers (build_mux_bitstream and  *)
(* build_cmos_mux_bitstream of openfpga_link_arch.cpp), as a state machine *)
(* that follows one call from its entry to its return or fatal end.        *)
(*                                                                         *)
(* MuxGraph, MuxLibrary, itobin_vec and find_mux_local_decoder_addr_size   *)
(* are declared outside the files at hand; they are modelled from the      *)
(* design document.  VTR_ASSERT is taken as enabled (a failed assertion    *)
(* ends the process).                                                      *)
(***************************************************************************)
EXTENDS Integers, Sequences, FiniteSets, TLC

(* ------------------------------ bounds --------------------------------- *)
\* largest number of memories of a MuxGraph
MaxMems == 3
\* largest number of inputs of a MuxGraph
MaxInputs == 4
\* largest datapath size a caller asks for
MaxMuxSize == 4
\* largest number of edges on the route of one input
MaxRouteLen == 2

(* ----------------------------- constants ------------------------------- *)
\* the sentinel a caller passes to ask for the default path
DEFAULT_PATH_ID == -1
\* the default path of a multiplexer without a constant input: its first input
DEFAULT_MUX_PATH_ID == 0
\* size_t is 64 bits wide; a value is kept as SizeTLimbs limbs of base
\* LimbBase, least significant limb first
LimbBase == 65536
SizeTLimbs == 4

DesignTechs == {"CIRCUIT_MODEL_DESIGN_CMOS", "CIRCUIT_MODEL_DESIGN_RRAM", "NUM_CIRCUIT_MODEL_DESIGN_TECH_TYPES"}

(* ------------------------------ size_t --------------------------------- *)
\* the conversion keeping the magnitude of a negative int
ToSizeT_magnitude(x) ==
  [k \in 1..SizeTLimbs |->
     IF k = 1 THEN (IF x < 0 THEN 0 - x ELSE x) % LimbBase
     ELSE IF k = 2 THEN ((IF x < 0 THEN 0 - x ELSE x) \div LimbBase) % LimbBase
     ELSE 0]

\* conversion of an int (or of a small size expression) to size_t: the value
\* modulo 2^64, so that a negative int wraps to the top of the range
ToSizeT(x) ==
  [k \in 1..SizeTLimbs |->
     IF k = 1 THEN x % LimbBase
     ELSE IF k = 2 THEN (x \div LimbBase) % LimbBase
     ELSE IF x < 0 THEN LimbBase - 1 ELSE 0]

\* a < b on size_t values
SizeTLess(a, b) ==
  \E k \in 1..SizeTLimbs :
     /\ a[k] < b[k]
     /\ \A j \in (k+1)..SizeTLimbs : a[j] = b[j]

(* ----------------------------- MuxGraph -------------------------------- *)
RECURSIVE SortedSeq(_)
SortedSeq(S) ==
  IF S = {} THEN <<>>
  ELSE LET m == CHOOSE x \in S : \A y \in S : x <= y
       IN <<m>> \o SortedSeq(S \ {m})

\* the levels of a graph of n memories cut after the memory ids of Cuts:
\* each level lists its memory ids (from 0) in increasing order, and the
\* levels partition the memories
LevelsOf(n, Cuts) ==
  LET b == SortedSeq({0} \cup Cuts \cup {n})
  IN [k \in 1..(Len(b) - 1) |-> [i \in 1..(b[k+1] - b[k]) |-> b[k] + i - 1]]

LevelLayouts ==
  UNION {{LevelsOf(n, Cuts) : Cuts \in SUBSET (1..(n-1))} : n \in 1..MaxMems}

\* what build_cmos_mux_bitstream reads of a MuxGraph, but for its edges
MuxGraphs ==
  [num_inputs : 1..MaxInputs, num_outputs : 1..2, levels : LevelLayouts]

RECURSIVE SumLen(_)
SumLen(ls) == IF ls = <<>> THEN 0 ELSE Len(Head(ls)) + SumLen(Tail(ls))

\* mux_graph.memories().size()
num_memory_bits(g) == SumLen(g.levels)

\* mux_graph.memories_at_level(level), level counted from 1
memories_at_level(g, lvl) == g.levels[lvl]

\* the edges on the path from one input to the output (none when the input
\* is not connected): each with the id of the memory that controls it and
\* whether it uses the inverted memory output; no two edges of a path share
\* a memory.  A well-formed graph has at most one edge of a path in a level;
\* paths with two edges in one level are kept, as the graphs the assertion
\* on encoder_data guards against
Routes(g) ==
  {r \in SUBSET [mem : 0..(num_memory_bits(g) - 1), inv : BOOLEAN] :
     /\ Cardinality(r) <= MaxRouteLen
     /\ \A e1, e2 \in r : e1.mem = e2.mem => e1 = e2}

\* decode_memory_bits blind to the inverted-memory flag of an edge
decode_memory_bits_ignoring_inv(g, route) ==
  [m \in 1..num_memory_bits(g) |-> \E e \in route : e.mem = m - 1]

\* MuxGraph::decode_memory_bits: one bit per memory, indexed by memory id;
\* the bit of a memory is true iff the memory controls an edge of the route
\* and that edge does not use the inverted memory
decode_memory_bits(g, route) ==
  [m \in 1..num_memory_bits(g) |->
     \E e \in route : e.mem = m - 1 /\ ~e.inv]

(* --------------------------- decoder utils ----------------------------- *)
RECURSIVE Pow2(_)
Pow2(n) == IF n = 0 THEN 1 ELSE 2 * Pow2(n - 1)

\* find_mux_local_decoder_addr_size: ceil(log2(data_size))
RECURSIVE CeilLog2From(_, _)
CeilLog2From(data_size, w) ==
  IF Pow2(w) >= data_size THEN w ELSE CeilLog2From(data_size, w + 1)

\* an address as wide as the level has memories
find_mux_local_decoder_addr_size_one_hot(data_size) == data_size

\* find_mux_local_decoder_addr_size: ceil(log2(data_size))
find_mux_local_decoder_addr_size(data_size) == CeilLog2From(data_size, 0)

\* the digits of the value counted from 1
itobin_vec_counting_from_one(in_int, bin_len, msb) ==
  [i \in 1..bin_len |->
     IF msb THEN ((in_int + 1) \div Pow2(bin_len - i)) % 2
     ELSE ((in_int + 1) \div Pow2(i - 1)) % 2]

\* the digits with every digit but the lowest left at 0
itobin_vec_low_digit_only(in_int, bin_len, msb) ==
  [i \in 1..bin_len |->
     IF msb THEN (IF i = bin_len THEN in_int % 2 ELSE 0)
     ELSE (IF i = 1 THEN in_int % 2 ELSE 0)]

\* itobin_vec(in_int, bin_len): bin_len binary digits of in_int, in the one
\* order the build fixes (msb: most significant digit first)
itobin_vec(in_int, bin_len, msb) ==
  [i \in 1..bin_len |->
     IF msb THEN (in_int \div Pow2(bin_len - i)) % 2
     ELSE (in_int \div Pow2(i - 1)) % 2]

(* ------------------------------- state --------------------------------- *)
VARIABLES
  circuit_model,        \* design_tech, add_const_input, use_local_encoder
  msb_first,            \* the digit order of itobin_vec
  mux_lib,              \* the graph registered, and the datapath size it is under
  pc,                   \* where the call is
  fatal_at,             \* the check that ended the process, if one did
  mux_size, path_id,    \* arguments of the call
  implemented_mux_size,
  datapath_id,          \* size_t
  sel_edges,            \* edges of the graph from MuxInputId(datapath_id) to the output
  raw_bitstream,
  mux_bitstream,
  level,                \* number of levels the encoding loop has gone through
  graph_edges,          \* the edges of the graph read so far, by input
  suspended,            \* the locals of the invocation that is not running
  tgate_model,          \* the pass-gate logic model of the multiplexer model
  module_manager,       \* what the module manager holds
  branch_graph,         \* the graph handed to the branch-module generator
  gen_pc,               \* where the generator is
  gen_fatal_at,         \* the assertion of the generator that failed, if one did
  gen_input,            \* the input the loop of the generator is at
  tgates,               \* the transmission-gate instances written so far
  rr_graph,             \* the nodes of the routing resource graph: type, direction
  link_pc,              \* where link_arch is
  rr_node,              \* the node the loop of is_vpr_rr_graph_supported is at
  rr_supported,         \* what is_vpr_rr_graph_supported returned, once it has
  link_calls,           \* the builders of the routing annotation link_arch has called
  link_status           \* what link_arch returned, once it has

\* the variables of the branch-module generator
gen_vars == <<tgate_model, module_manager, branch_graph, gen_pc, gen_fatal_at,
              gen_input, tgates>>

\* the variables of link_arch
link_vars == <<rr_graph, link_pc, rr_node, rr_supported, link_calls, link_status>>

\* what a step of a call of build_mux_bitstream leaves alone
other_vars == <<suspended, gen_vars, link_vars>>

vars == <<circuit_model, msb_first, mux_lib, pc, fatal_at, mux_size, path_id,
          implemented_mux_size, datapath_id, sel_edges, raw_bitstream,
          mux_bitstream, level, graph_edges, suspended, gen_vars, link_vars>>

mux_graph == mux_lib.graph

\* no edge of the graph has been read
NoEdgesRead == [input \in {} |-> {}]

\* the locals of an invocation that has not been called
NotCalled ==
  [pc |-> "idle", fatal_at |-> "none", mux_size |-> 0, path_id |-> 0,
   implemented_mux_size |-> 0, datapath_id |-> ToSizeT(0), sel_edges |-> {},
   raw_bitstream |-> <<>>, mux_bitstream |-> <<>>, level |-> 0]

\* no branch module is being generated
GeneratorIdle ==
  /\ tgate_model = [model_type |-> "SPICE_MODEL_PASSGATE", gate_type |-> "none",
                    num_input_ports |-> 3, num_output_ports |-> 1]
  /\ module_manager = [modules |-> {}, children |-> 0]
  /\ branch_graph = [num_inputs |-> 0, num_outputs |-> 0, num_levels |-> 0,
                     num_memory_bits |-> 0, num_edges |-> <<>>]
  /\ gen_pc = "idle"
  /\ gen_fatal_at = "none"
  /\ gen_input = 0
  /\ tgates = <<>>

\* link_arch is not running
LinkIdle ==
  /\ rr_graph = <<>>
  /\ link_pc = "idle"
  /\ rr_node = 0
  /\ rr_supported = "none"
  /\ link_calls = {}
  /\ link_status = "none"

Init ==
  /\ circuit_model \in [design_tech : DesignTechs, add_const_input : BOOLEAN,
                        use_local_encoder : BOOLEAN]
  /\ msb_first \in BOOLEAN
  /\ mux_lib \in [size : 1..MaxMuxSize, graph : MuxGraphs]
  /\ pc = "idle"
  /\ fatal_at = "none"
  /\ mux_size = 0
  /\ path_id = 0
  /\ implemented_mux_size = 0
  /\ datapath_id = ToSizeT(0)
  /\ sel_edges = {}
  /\ raw_bitstream = <<>>
  /\ mux_bitstream = <<>>
  /\ level = 0
  /\ graph_edges = NoEdgesRead
  /\ suspended = NotCalled
  /\ LinkIdle
  /\ GeneratorIdle

(* --------------------- build_mux_bitstream: dispatch ------------------- *)
\* the switch with the break of the RRAM case missing: it falls through to
\* the default case
design_tech_branch_rram_falls_through(tech) ==
  IF tech = "CIRCUIT_MODEL_DESIGN_CMOS" THEN "cmos" ELSE "exit"

\* the switch with a default case that breaks instead of exiting
design_tech_branch_default_breaks(tech) ==
  IF tech = "CIRCUIT_MODEL_DESIGN_CMOS" THEN "cmos" ELSE "break"

\* the switch on circuit_lib.design_tech_type(mux_model): the CMOS case calls
\* build_cmos_mux_bitstream, the RRAM case breaks out of the switch and the
\* default case logs an error and calls exit(1)
design_tech_branch(tech) ==
  IF tech = "CIRCUIT_MODEL_DESIGN_CMOS" THEN "cmos"
  ELSE IF tech = "CIRCUIT_MODEL_DESIGN_RRAM" THEN "break"
  ELSE "exit"

\* a call of build_mux_bitstream(circuit_lib, mux_model, mux_lib, size, path);
\* the arguments are read by the CMOS branch only
build_mux_bitstream(size, path) ==
  /\ pc = "idle"
  /\ LET branch == design_tech_branch(circuit_model.design_tech) IN
       \/ /\ branch = "cmos"
          /\ pc' = "cmos"
          /\ mux_size' = size
          /\ path_id' = path
          /\ UNCHANGED fatal_at
       \/ /\ branch = "break"
          /\ pc' = "returned"
          /\ UNCHANGED <<mux_size, path_id, fatal_at>>
       \/ /\ branch = "exit"
          /\ pc' = "fatal"
          /\ fatal_at' = "exit"
          /\ UNCHANGED <<mux_size, path_id>>
  /\ UNCHANGED <<circuit_model, msb_first, mux_lib, implemented_mux_size,
                 datapath_id, sel_edges, raw_bitstream, mux_bitstream, level>>
  /\ UNCHANGED <<graph_edges, other_vars>>

(* ---------------- build_cmos_mux_bitstream: path resolution ------------ *)
\* the number of inputs of the implemented multiplexer: the constant input,
\* when the model adds one, counts as an input
find_mux_implementation_num_inputs(model, size) ==
  IF model.add_const_input THEN size + 1 ELSE size

\* the default path with the last input taken one too far
find_mux_default_path_id_off_by_one(model, size) ==
  IF model.add_const_input = TRUE
  THEN ToSizeT(size)
  ELSE ToSizeT(DEFAULT_MUX_PATH_ID)

\* the default path with the constant input overlooked
find_mux_default_path_id_ignoring_const(model, size) == ToSizeT(DEFAULT_MUX_PATH_ID)

\* find_mux_default_path_id(circuit_lib, mux_model, size), a size_t
find_mux_default_path_id(model, size) ==
  IF model.add_const_input = TRUE
  THEN ToSizeT(size - 1)
  ELSE ToSizeT(DEFAULT_MUX_PATH_ID)

\* mux_lib.mux_graph(mux_model, size) resolves only for a registered size
mux_graph_registered(lib, size) == lib.size = size

\* the bound check with <= in place of <
explicit_path_in_range_inclusive(dp, size) == SizeTLess(dp, ToSizeT(size + 1))

\* the explicit path id checked against the implemented size in place of
\* mux_size
explicit_path_in_range_of_implemented(dp, size) ==
  SizeTLess(dp, ToSizeT(find_mux_implementation_num_inputs(circuit_model, size)))

\* VTR_ASSERT(datapath_id < mux_size), on an explicit path id
explicit_path_in_range(dp, size) == SizeTLess(dp, ToSizeT(size))

\* the check against the inputs of the graph with <= in place of <
path_in_graph_inclusive(dp, g) == SizeTLess(dp, ToSizeT(g.num_inputs + 1))

\* VTR_ASSERT(datapath_id < mux_graph.inputs().size())
path_in_graph(dp, g) == SizeTLess(dp, ToSizeT(g.num_inputs))

\* VTR_ASSERT(1 == mux_graph.outputs().size())
single_output(g) == 1 = g.num_outputs

\* an explicit path id taken as counted from 1
resolve_datapath_id_explicit_from_one(model, impl_size, path) ==
  IF DEFAULT_PATH_ID = path
  THEN find_mux_default_path_id(model, impl_size)
  ELSE ToSizeT(path + 1)

\* the datapath id of the call: the default path of the implemented
\* multiplexer for the sentinel, the path id converted to size_t otherwise
resolve_datapath_id(model, impl_size, path) ==
  IF DEFAULT_PATH_ID = path
  THEN find_mux_default_path_id(model, impl_size)
  ELSE ToSizeT(path)

\* the lookup of the graph done with an access that inserts: a size that is
\* not registered is added to the library, with the graph at hand, before
\* the checks that follow
ResolvePath_inserting_on_miss ==
  /\ pc = "cmos"
  /\ LET impl == find_mux_implementation_num_inputs(circuit_model, mux_size)
         dp   == resolve_datapath_id(circuit_model, impl, path_id)
         stop == IF DEFAULT_PATH_ID # path_id
                    /\ ~explicit_path_in_range(dp, mux_size) THEN "path_id"
                 ELSE IF ~path_in_graph(dp, mux_graph) THEN "inputs"
                 ELSE IF ~single_output(mux_graph) THEN "outputs"
                 ELSE "none"
     IN
       /\ implemented_mux_size' = impl
       /\ mux_lib' = [mux_lib EXCEPT !.size = mux_size]
       /\ datapath_id' = dp
       /\ \/ /\ stop \in {"path_id", "inputs", "outputs"}
             /\ pc' = "fatal"
             /\ fatal_at' = stop
          \/ /\ stop = "none"
             /\ pc' = "resolved"
             /\ UNCHANGED fatal_at
  /\ UNCHANGED <<circuit_model, msb_first, mux_size, path_id,
                 sel_edges, raw_bitstream, mux_bitstream, level>>
  /\ UNCHANGED <<graph_edges, other_vars>>

\* the graph looked up under the implemented size in place of mux_size
ResolvePath_lookup_by_implemented ==
  /\ pc = "cmos"
  /\ LET impl == find_mux_implementation_num_inputs(circuit_model, mux_size)
         dp   == resolve_datapath_id(circuit_model, impl, path_id)
         stop == IF ~mux_graph_registered(mux_lib, impl) THEN "lookup"
                 ELSE IF DEFAULT_PATH_ID # path_id
                         /\ ~explicit_path_in_range(dp, mux_size) THEN "path_id"
                 ELSE IF ~path_in_graph(dp, mux_graph) THEN "inputs"
                 ELSE IF ~single_output(mux_graph) THEN "outputs"
                 ELSE "none"
     IN
       /\ implemented_mux_size' = impl
       /\ \/ /\ stop = "lookup"
             /\ pc' = "fatal"
             /\ fatal_at' = stop
             /\ UNCHANGED datapath_id
          \/ /\ stop \in {"path_id", "inputs", "outputs"}
             /\ pc' = "fatal"
             /\ fatal_at' = stop
             /\ datapath_id' = dp
          \/ /\ stop = "none"
             /\ pc' = "resolved"
             /\ datapath_id' = dp
             /\ UNCHANGED fatal_at
  /\ UNCHANGED <<circuit_model, msb_first, mux_lib, mux_size, path_id,
                 sel_edges, raw_bitstream, mux_bitstream, level>>
  /\ UNCHANGED <<graph_edges, other_vars>>

\* from the entry of build_cmos_mux_bitstream to the last check before the
\* memory bits are decoded
ResolvePath ==
  /\ pc = "cmos"
  /\ LET impl == find_mux_implementation_num_inputs(circuit_model, mux_size)
         dp   == resolve_datapath_id(circuit_model, impl, path_id)
         stop == IF ~mux_graph_registered(mux_lib, mux_size) THEN "lookup"
                 ELSE IF DEFAULT_PATH_ID # path_id
                         /\ ~explicit_path_in_range(dp, mux_size) THEN "path_id"
                 ELSE IF ~path_in_graph(dp, mux_graph) THEN "inputs"
                 ELSE IF ~single_output(mux_graph) THEN "outputs"
                 ELSE "none"
     IN
       /\ implemented_mux_size' = impl
       /\ \/ /\ stop = "lookup"
             /\ pc' = "fatal"
             /\ fatal_at' = stop
             /\ UNCHANGED datapath_id
          \/ /\ stop \in {"path_id", "inputs", "outputs"}
             /\ pc' = "fatal"
             /\ fatal_at' = stop
             /\ datapath_id' = dp
          \/ /\ stop = "none"
             /\ pc' = "resolved"
             /\ datapath_id' = dp
             /\ UNCHANGED fatal_at
  /\ UNCHANGED <<circuit_model, msb_first, mux_lib, mux_size, path_id,
                 sel_edges, raw_bitstream, mux_bitstream, level>>
  /\ UNCHANGED <<graph_edges, other_vars>>

(* ------------------ build_cmos_mux_bitstream: raw bits ----------------- *)
\* the copy taken from the last memory to the first
copy_raw_bitstream_reversed(raw) == [i \in 1..Len(raw) |-> raw[Len(raw) + 1 - i]]

\* the loop that pushes every bit of raw_bitstream, in memory-id order
copy_raw_bitstream(raw) == [i \in 1..Len(raw) |-> raw[i]]

\* the inputs of the graph taken as counted from 1
MuxInputId_from_one(dp) == dp[1] - 1

\* MuxInputId(datapath_id): the input of the graph with that index; the
\* checks before it have bounded the index by the inputs of the graph
MuxInputId(dp) == dp[1]

\* the graph does not change between two reads: the edges read for an input
\* stay the edges of that input
edges_read(read, input, route) ==
  [i \in DOMAIN read \cup {input} |-> IF i = input THEN route ELSE read[i]]

\* decode_memory_bits(MuxInputId(datapath_id), the output) and the copy of
\* its result into mux_bitstream; the edges of the graph from that input to
\* the output are read here
DecodeMemoryBits ==
  /\ pc = "resolved"
  /\ \E route \in Routes(mux_graph) :
       /\ MuxInputId(datapath_id) \in DOMAIN graph_edges
            => route = graph_edges[MuxInputId(datapath_id)]
       /\ graph_edges' = edges_read(graph_edges, MuxInputId(datapath_id), route)
       /\ sel_edges' = route
       /\ raw_bitstream' = decode_memory_bits(mux_graph, route)
       /\ mux_bitstream' = copy_raw_bitstream(decode_memory_bits(mux_graph, route))
  /\ pc' = "copied"
  /\ UNCHANGED <<circuit_model, msb_first, mux_lib, fatal_at, mux_size, path_id,
                 implemented_mux_size, datapath_id, level>>
  /\ UNCHANGED other_vars

\* the test on circuit_lib.mux_use_local_encoder(mux_model)
returns_raw(model) == FALSE = model.use_local_encoder

\* without a local encoder the copy of the raw bits is returned
ReturnRaw ==
  /\ pc = "copied"
  /\ returns_raw(circuit_model)
  /\ pc' = "returned"
  /\ UNCHANGED <<circuit_model, msb_first, mux_lib, fatal_at, mux_size, path_id,
                 implemented_mux_size, datapath_id, sel_edges, raw_bitstream,
                 mux_bitstream, level>>
  /\ UNCHANGED <<graph_edges, other_vars>>

\* the clear left out
cleared_left_out(bits) == bits

\* mux_bitstream.clear()
cleared(bits) == <<>>

\* with a local encoder the copy is cleared before the levels are encoded
ClearBitstream ==
  /\ pc = "copied"
  /\ ~returns_raw(circuit_model)
  /\ mux_bitstream' = cleared(mux_bitstream)
  /\ level' = 0
  /\ pc' = "encoding"
  /\ UNCHANGED <<circuit_model, msb_first, mux_lib, fatal_at, mux_size, path_id,
                 implemented_mux_size, datapath_id, sel_edges, raw_bitstream>>
  /\ UNCHANGED <<graph_edges, other_vars>>

(* ---------------- build_cmos_mux_bitstream: local encoder -------------- *)
\* raw_bitstream[mem], mem a memory id counted from 0
raw_bit(raw, mem) == raw[mem + 1]

\* the exception for a level of one memory left out
single_memory_level_never(mems) == FALSE

\* the level has exactly one memory
single_memory_level(mems) == 1 = Len(mems)

\* the raw bit of memory 0 pushed in place of the raw bit of the level's memory
single_memory_bits_of_memory_0(raw, mems) == <<raw_bit(raw, 0)>>

\* what a level of one memory pushes: the raw bit of that memory
single_memory_bits(raw, mems) == <<raw_bit(raw, mems[1])>>

\* encoder_data filled with memory ids in place of indices within the level
encoder_data_by_memory_id(raw, mems) ==
  SelectSeq(mems, LAMBDA mem : raw_bit(raw, mem) = TRUE)

\* encoder_data: the indices (from 0) within the level of the memories whose
\* raw bit is true, in increasing order
encoder_data(raw, mems) ==
  SelectSeq([i \in 1..Len(mems) |-> i - 1],
            LAMBDA mem_index : raw_bit(raw, mems[mem_index + 1]) = TRUE)

\* the assertion on encoder_data left out
at_most_one_set_unchecked(data) == TRUE

\* VTR_ASSERT((0 == encoder_data.size()) || (1 == encoder_data.size()))
at_most_one_set(data) == (0 = Len(data)) \/ (1 = Len(data))

\* the address of a level with no bit set taken as the last position of the
\* level in place of 0
encoder_addr_none_as_last(data, level_size, msb) ==
  IF 0 = Len(data)
  THEN itobin_vec(level_size - 1, find_mux_local_decoder_addr_size(level_size), msb)
  ELSE itobin_vec(data[1], find_mux_local_decoder_addr_size(level_size), msb)

\* encoder_addr: the address of the level in binary
encoder_addr(data, level_size, msb) ==
  IF 0 = Len(data)
  THEN itobin_vec(0, find_mux_local_decoder_addr_size(level_size), msb)
  ELSE itobin_vec(data[1], find_mux_local_decoder_addr_size(level_size), msb)

\* the bits pushed for an address with the test turned round: 0 == bit
addr_bits_inverted(addr) == [i \in 1..Len(addr) |-> 0 = addr[i]]

\* the bits pushed for an address: 1 == bit
addr_bits(addr) == [i \in 1..Len(addr) |-> 1 = addr[i]]

\* the level the loop over mux_graph.levels() is at
next_level(done) == done + 1

\* one pass of the loop over the levels
EncodeLevel ==
  /\ pc = "encoding"
  /\ level < Len(mux_graph.levels)
  /\ LET mems == memories_at_level(mux_graph, next_level(level))
         data == encoder_data(raw_bitstream, mems)
     IN
       \/ /\ single_memory_level(mems)
          /\ mux_bitstream' = mux_bitstream \o single_memory_bits(raw_bitstream, mems)
          /\ level' = next_level(level)
          /\ UNCHANGED <<pc, fatal_at>>
       \/ /\ ~single_memory_level(mems)
          /\ ~at_most_one_set(data)
          /\ pc' = "fatal"
          /\ fatal_at' = "encoder_data"
          /\ UNCHANGED <<mux_bitstream, level>>
       \/ /\ ~single_memory_level(mems)
          /\ at_most_one_set(data)
          /\ mux_bitstream' =
               mux_bitstream \o addr_bits(encoder_addr(data, Len(mems), msb_first))
          /\ level' = next_level(level)
          /\ UNCHANGED <<pc, fatal_at>>
  /\ UNCHANGED <<circuit_model, msb_first, mux_lib, mux_size, path_id,
                 implemented_mux_size, datapath_id, sel_edges, raw_bitstream>>
  /\ UNCHANGED <<graph_edges, other_vars>>

\* the return after the last level
ReturnEncoded ==
  /\ pc = "encoding"
  /\ level = Len(mux_graph.levels)
  /\ pc' = "returned"
  /\ UNCHANGED <<circuit_model, msb_first, mux_lib, fatal_at, mux_size, path_id,
                 implemented_mux_size, datapath_id, sel_edges, raw_bitstream,
                 mux_bitstream, level>>
  /\ UNCHANGED <<graph_edges, other_vars>>

(* --------------------------- specification ----------------------------- *)
PathIds == (-2)..(MaxMuxSize + 1)

Next ==
  \/ \E size \in 1..MaxMuxSize, path \in PathIds : build_mux_bitstream(size, path)
  \/ ResolvePath
  \/ DecodeMemoryBits
  \/ ReturnRaw
  \/ ClearBitstream
  \/ EncodeLevel
  \/ ReturnEncoded

Spec == Init /\ [][Next]_vars

(* ---------------------- two invocations in one process ----------------- *)
MaxConcurrentMems == 1
MaxConcurrentSize == 2

\* the locals of the running invocation: the arguments and the variables
\* declared in build_mux_bitstream and build_cmos_mux_bitstream
call_locals ==
  [pc |-> pc, fatal_at |-> fatal_at, mux_size |-> mux_size, path_id |-> path_id,
   implemented_mux_size |-> implemented_mux_size, datapath_id |-> datapath_id,
   sel_edges |-> sel_edges, raw_bitstream |-> raw_bitstream,
   mux_bitstream |-> mux_bitstream, level |-> level]

\* mux_bitstream declared static: one vector for every invocation
resumed_with_static_mux_bitstream(saved, running) ==
  [saved EXCEPT !.mux_bitstream = running.mux_bitstream]

\* raw_bitstream declared static: one vector for every invocation
resumed_with_static_raw_bitstream(saved, running) ==
  [saved EXCEPT !.raw_bitstream = running.raw_bitstream]

\* the locals an invocation finds when it runs again: every one of them has
\* automatic storage, so they are the ones it left
resumed(saved, running) == saved

\* the thread of the other invocation is scheduled; a failed assertion or
\* exit(1) has ended the process, and no thread runs after it
Switch ==
  /\ pc # "fatal"
  /\ suspended' = call_locals
  /\ LET r == resumed(suspended, call_locals) IN
       /\ pc' = r.pc
       /\ fatal_at' = r.fatal_at
       /\ mux_size' = r.mux_size
       /\ path_id' = r.path_id
       /\ implemented_mux_size' = r.implemented_mux_size
       /\ datapath_id' = r.datapath_id
       /\ sel_edges' = r.sel_edges
       /\ raw_bitstream' = r.raw_bitstream
       /\ mux_bitstream' = r.mux_bitstream
       /\ level' = r.level
  /\ UNCHANGED <<circuit_model, msb_first, mux_lib, graph_edges, gen_vars, link_vars>>

\* two invocations on one library, the graph of at most MaxConcurrentMems
\* memories and MaxConcurrentSize inputs
InitConcurrent ==
  /\ Init
  /\ mux_lib.size <= MaxConcurrentSize
  /\ mux_graph.num_inputs <= MaxConcurrentSize
  /\ num_memory_bits(mux_graph) <= MaxConcurrentMems

ConcurrentPathIds == (-1)..MaxConcurrentSize

NextConcurrent ==
  \/ \E size \in 1..MaxConcurrentSize, path \in ConcurrentPathIds :
        build_mux_bitstream(size, path)
  \/ ResolvePath
  \/ DecodeMemoryBits
  \/ ReturnRaw
  \/ ClearBitstream
  \/ EncodeLevel
  \/ ReturnEncoded
  \/ Switch

SpecConcurrent == InitConcurrent /\ [][NextConcurrent]_vars

(* --------------------------- one-level graphs -------------------------- *)
\* the graph of a one-level multiplexer of n inputs: one output, one level
\* that holds the n memories 0 .. n-1
OneLevelGraph(n) ==
  [num_inputs |-> n, num_outputs |-> 1, levels |-> <<[i \in 1..n |-> i - 1]>>]

\* its edges: input i reaches the output by one edge, controlled by memory i
\* and not by its inverse
OneLevelEdges(n) == [input \in 0..(n - 1) |-> {[mem |-> input, inv |-> FALSE]}]

\* a CMOS model and, registered under a datapath size, the one-level graph of
\* the implemented multiplexer of that size
InitOneLevel ==
  /\ circuit_model \in [design_tech : {"CIRCUIT_MODEL_DESIGN_CMOS"},
                        add_const_input : BOOLEAN, use_local_encoder : BOOLEAN]
  /\ msb_first \in BOOLEAN
  /\ \E size \in 1..MaxMuxSize :
        /\ mux_lib =
             [size |-> size,
              graph |-> OneLevelGraph(
                          find_mux_implementation_num_inputs(circuit_model, size))]
        /\ graph_edges =
             OneLevelEdges(find_mux_implementation_num_inputs(circuit_model, size))
  /\ pc = "idle"
  /\ fatal_at = "none"
  /\ mux_size = 0
  /\ path_id = 0
  /\ implemented_mux_size = 0
  /\ datapath_id = ToSizeT(0)
  /\ sel_edges = {}
  /\ raw_bitstream = <<>>
  /\ mux_bitstream = <<>>
  /\ level = 0
  /\ suspended = NotCalled
  /\ LinkIdle
  /\ GeneratorIdle

SpecOneLevel == InitOneLevel /\ [][Next]_vars

(* ------- generate_verilog_cmos_mux_branch_module_structural ----------- *)
MaxBranchInputs == 3
MaxBranchMems == 2
MaxPairEdges == 2

\* the variables of the calls of build_mux_bitstream
call_vars == <<circuit_model, msb_first, mux_lib, pc, fatal_at, mux_size, path_id,
               implemented_mux_size, datapath_id, sel_edges, raw_bitstream,
               mux_bitstream, level, graph_edges, suspended>>

\* the pass-gate logic models of the circuit library: the type of the model,
\* the type of gate of a gate model, the input and output ports it has
TgateModels ==
  [model_type : {"SPICE_MODEL_PASSGATE", "SPICE_MODEL_GATE"},
   gate_type : {"SPICE_MODEL_GATE_MUX2", "SPICE_MODEL_GATE_AND"},
   num_input_ports : 2..3, num_output_ports : 1..2]

\* the graphs of branch circuits: num_edges[i] is the number of edges that
\* find_edges gives between input i and the first output, the only output
\* the generator gets to
BranchGraphs ==
  UNION {[num_inputs : {n}, num_outputs : 1..2, num_levels : 1..2,
          num_memory_bits : 1..MaxBranchMems,
          num_edges : [0..(n - 1) -> 0..MaxPairEdges]] : n \in 1..MaxBranchInputs}

\* the names of the branch module to generate and of the module of the
\* pass-gate logic
BranchModuleName == "mux_branch"
TgateModuleName == "tgate"

\* the generator is called on a pass-gate model and a graph, with a module
\* manager that may hold either module already; no call of
\* build_mux_bitstream is under way
InitBranch ==
  /\ tgate_model \in TgateModels
  /\ module_manager \in [modules : SUBSET {BranchModuleName, TgateModuleName},
                         children : {0}]
  /\ branch_graph \in BranchGraphs
  /\ gen_pc = "idle"
  /\ gen_fatal_at = "none"
  /\ gen_input = 0
  /\ tgates = <<>>
  /\ circuit_model = [design_tech |-> "CIRCUIT_MODEL_DESIGN_CMOS",
                      add_const_input |-> FALSE, use_local_encoder |-> FALSE]
  /\ msb_first = FALSE
  /\ mux_lib = [size |-> 1, graph |-> OneLevelGraph(1)]
  /\ pc = "idle"
  /\ fatal_at = "none"
  /\ mux_size = 0
  /\ path_id = 0
  /\ implemented_mux_size = 0
  /\ datapath_id = ToSizeT(0)
  /\ sel_edges = {}
  /\ raw_bitstream = <<>>
  /\ mux_bitstream = <<>>
  /\ level = 0
  /\ graph_edges = NoEdgesRead
  /\ suspended = NotCalled
  /\ LinkIdle

\* what stops the generator before its loop: the early return on a gate
\* model ("skip"), the first assertion that fails, or nothing
branch_entry_stop(tgate, g, modules) ==
  IF "SPICE_MODEL_GATE" = tgate.model_type
  THEN IF "SPICE_MODEL_GATE_MUX2" = tgate.gate_type THEN "skip" ELSE "gate_type"
  ELSE IF 3 # tgate.num_input_ports THEN "tgate_input_ports"
  ELSE IF 1 # tgate.num_output_ports THEN "tgate_output_ports"
  ELSE IF 1 # g.num_outputs THEN "num_outputs"
  ELSE IF 1 # g.num_levels THEN "num_levels"
  ELSE IF BranchModuleName \in modules THEN "add_module"
  ELSE IF TgateModuleName \notin modules THEN "find_module"
  ELSE "none"

\* module_manager.add_module(module_name)
add_module(mm, name) == [mm EXCEPT !.modules = @ \cup {name}]

\* from the entry of the generator to the loop over the inputs; the file
\* handler is a valid one
BranchEntry ==
  /\ gen_pc = "idle"
  /\ LET stop == branch_entry_stop(tgate_model, branch_graph, module_manager.modules)
     IN \/ /\ stop = "skip"
           /\ gen_pc' = "returned"
           /\ UNCHANGED <<gen_fatal_at, module_manager>>
        \/ /\ stop \in {"gate_type", "tgate_input_ports", "tgate_output_ports",
                        "num_outputs", "num_levels", "add_module"}
           /\ gen_pc' = "fatal"
           /\ gen_fatal_at' = stop
           /\ UNCHANGED module_manager
        \/ /\ stop = "find_module"
           /\ gen_pc' = "fatal"
           /\ gen_fatal_at' = stop
           /\ module_manager' = add_module(module_manager, BranchModuleName)
        \/ /\ stop = "none"
           /\ gen_pc' = "loop"
           /\ module_manager' = add_module(module_manager, BranchModuleName)
           /\ UNCHANGED gen_fatal_at
  /\ UNCHANGED <<tgate_model, branch_graph, gen_input, tgates>>
  /\ UNCHANGED <<call_vars, link_vars>>

\* the assertion on the edges of a pair left out
edges_allowed_unchecked(n) == TRUE

\* VTR_ASSERT((1 == edges.size()) || (0 == edges.size()))
edges_allowed(n) == (1 = n) \/ (0 = n)

\* the instance written with the wiring of the two cases exchanged
tgate_instance_swapped(input, output, mem, use_inv) ==
  [in |-> input, out |-> output,
   sel |-> IF FALSE = use_inv THEN [port |-> "mem_inv", pin |-> mem]
           ELSE [port |-> "mem", pin |-> mem],
   sel_inv |-> IF FALSE = use_inv THEN [port |-> "mem", pin |-> mem]
               ELSE [port |-> "mem_inv", pin |-> mem]]

\* the instance of the pass-gate logic written for an edge: its input and
\* output pins, and the memory pins wired to its second and third inputs,
\* swapped when the edge uses the inverted memory
tgate_instance(input, output, mem, use_inv) ==
  [in |-> input, out |-> output,
   sel |-> IF FALSE = use_inv THEN [port |-> "mem", pin |-> mem]
           ELSE [port |-> "mem_inv", pin |-> mem],
   sel_inv |-> IF FALSE = use_inv THEN [port |-> "mem_inv", pin |-> mem]
               ELSE [port |-> "mem", pin |-> mem]]

\* one pass of the loop over the inputs, with the pass of the loop over the
\* outputs in it (the graph has one output); find_edge_mem and
\* is_edge_use_inv_mem of the first edge are read here, and are those of the
\* edge of that input when the edges of the graph are known
BranchInput ==
  /\ gen_pc = "loop"
  /\ gen_input < branch_graph.num_inputs
  /\ LET n == branch_graph.num_edges[gen_input]
     IN \/ /\ ~edges_allowed(n)
           /\ gen_pc' = "fatal"
           /\ gen_fatal_at' = "edges"
           /\ UNCHANGED <<gen_input, tgates, module_manager>>
        \/ /\ edges_allowed(n)
           /\ 0 = n
           /\ gen_input' = gen_input + 1
           /\ UNCHANGED <<gen_pc, gen_fatal_at, tgates, module_manager>>
        \/ /\ edges_allowed(n)
           /\ 0 # n
           /\ \E mem \in 0..(branch_graph.num_memory_bits - 1), use_inv \in BOOLEAN :
                 /\ gen_input \in DOMAIN graph_edges
                      => [mem |-> mem, inv |-> use_inv] \in graph_edges[gen_input]
                 /\ tgates' = Append(tgates, tgate_instance(gen_input, 0, mem, use_inv))
           /\ module_manager' = [module_manager EXCEPT !.children = @ + 1]
           /\ gen_input' = gen_input + 1
           /\ UNCHANGED <<gen_pc, gen_fatal_at>>
  /\ UNCHANGED <<tgate_model, branch_graph>>
  /\ UNCHANGED <<call_vars, link_vars>>

\* after the last input the module is ended
BranchEnd ==
  /\ gen_pc = "loop"
  /\ gen_input = branch_graph.num_inputs
  /\ gen_pc' = "done"
  /\ UNCHANGED <<tgate_model, module_manager, branch_graph, gen_fatal_at,
                 gen_input, tgates>>
  /\ UNCHANGED <<call_vars, link_vars>>

NextBranch ==
  \/ BranchEntry
  \/ BranchInput
  \/ BranchEnd

SpecBranch == InitBranch /\ [][NextBranch]_vars

(* ---------------- the netlist and the bitstream of one graph ----------- *)
\* a one-level graph of n inputs and k memories, as build_cmos_mux_bitstream
\* reads it and as the branch-module generator reads it
OneLevelMuxGraph(n, k) ==
  [num_inputs |-> n, num_outputs |-> 1, levels |-> <<[i \in 1..k |-> i - 1]>>]

OneLevelBranchGraph(n, k) ==
  [num_inputs |-> n, num_outputs |-> 1, num_levels |-> 1, num_memory_bits |-> k,
   num_edges |-> [input \in 0..(n - 1) |-> 1]]

\* the edges of such a graph: each input reaches the output by one edge,
\* controlled by one of the memories or by its inverse
OneEdgePerInput(n, k) ==
  [0..(n - 1) -> {{e} : e \in [mem : 0..(k - 1), inv : BOOLEAN]}]

\* one graph for the generator and for build_mux_bitstream: a CMOS model
\* without local encoder, a pass-gate model that is not a gate, and the
\* module of the pass-gate logic in the module manager
InitNetlist ==
  /\ circuit_model \in [design_tech : {"CIRCUIT_MODEL_DESIGN_CMOS"},
                        add_const_input : BOOLEAN, use_local_encoder : {FALSE}]
  /\ msb_first = FALSE
  /\ \E n \in 1..MaxBranchInputs, k \in 1..MaxBranchMems :
        /\ mux_lib \in
             [size : {size \in 1..n :
                        find_mux_implementation_num_inputs(circuit_model, size) = n},
              graph : {OneLevelMuxGraph(n, k)}]
        /\ branch_graph = OneLevelBranchGraph(n, k)
        /\ graph_edges \in OneEdgePerInput(n, k)
  /\ tgate_model = [model_type |-> "SPICE_MODEL_PASSGATE",
                    gate_type |-> "SPICE_MODEL_GATE_MUX2",
                    num_input_ports |-> 3, num_output_ports |-> 1]
  /\ module_manager = [modules |-> {TgateModuleName}, children |-> 0]
  /\ gen_pc = "idle"
  /\ gen_fatal_at = "none"
  /\ gen_input = 0
  /\ tgates = <<>>
  /\ pc = "idle"
  /\ fatal_at = "none"
  /\ mux_size = 0
  /\ path_id = 0
  /\ implemented_mux_size = 0
  /\ datapath_id = ToSizeT(0)
  /\ sel_edges = {}
  /\ raw_bitstream = <<>>
  /\ mux_bitstream = <<>>
  /\ level = 0
  /\ suspended = NotCalled
  /\ LinkIdle

NetlistPathIds == (-1)..MaxBranchInputs

\* the bitstream of a multiplexer is built once its netlist is written
build_mux_bitstream_of_netlist ==
  /\ gen_pc = "done"
  /\ \E size \in 1..MaxBranchInputs, path \in NetlistPathIds :
        build_mux_bitstream(size, path)

NextNetlist ==
  \/ BranchEntry
  \/ BranchInput
  \/ BranchEnd
  \/ build_mux_bitstream_of_netlist
  \/ ResolvePath
  \/ DecodeMemoryBits
  \/ ReturnRaw

SpecNetlist == InitNetlist /\ [][NextNetlist]_vars

(* ------------------------------ link_arch ------------------------------ *)
MaxNodes == 3

\* the types and the directions of the nodes of a routing resource graph
RrTypes == {"SOURCE", "CHANX", "CHANY"}

Directions == {"INC", "DEC", "BIDIR", "NONE"}

RrGraphs ==
  UNION {[1..n -> [type : RrTypes, direction : Directions]] : n \in 0..MaxNodes}

\* the multiplexer libraries build_device_mux_library may build for a device
DeviceMuxLibraries == {[size |-> n, graph |-> OneLevelGraph(n)] : n \in 1..2}

\* link_arch is called on a context whose multiplexer library is the one of
\* an earlier run; no bitstream is being built and no module generated
InitLink ==
  /\ circuit_model = [design_tech |-> "CIRCUIT_MODEL_DESIGN_CMOS",
                      add_const_input |-> FALSE, use_local_encoder |-> FALSE]
  /\ msb_first = FALSE
  /\ mux_lib = [size |-> 1, graph |-> OneLevelGraph(1)]
  /\ pc = "idle"
  /\ fatal_at = "none"
  /\ mux_size = 0
  /\ path_id = 0
  /\ implemented_mux_size = 0
  /\ datapath_id = ToSizeT(0)
  /\ sel_edges = {}
  /\ raw_bitstream = <<>>
  /\ mux_bitstream = <<>>
  /\ level = 0
  /\ graph_edges = NoEdgesRead
  /\ suspended = NotCalled
  /\ GeneratorIdle
  /\ rr_graph \in RrGraphs
  /\ link_pc = "idle"
  /\ rr_node = 0
  /\ rr_supported = "none"
  /\ link_calls = {}
  /\ link_status = "none"

\* what a step of link_arch leaves alone, the library apart
link_leaves == <<circuit_model, msb_first, pc, fatal_at, mux_size, path_id,
                 implemented_mux_size, datapath_id, sel_edges, raw_bitstream,
                 mux_bitstream, level, suspended, gen_vars, rr_graph>>

\* every node taken for a routing track, whatever its type
is_routing_track_of_any_type(node) == TRUE

\* the nodes is_vpr_rr_graph_supported looks at: not (CHANX != type &&
\* CHANY != type)
is_routing_track(node) == ~("CHANX" # node.type /\ "CHANY" # node.type)

\* the directions is_vpr_rr_graph_supported returns false on
is_unsupported_direction(direction) == "BIDIR" = direction \/ "NONE" = direction

\* link_arch up to the call of is_vpr_rr_graph_supported: the annotations
\* of the pb_types, of the pb_graph and of the routing results
link_arch ==
  /\ link_pc = "idle"
  /\ link_pc' = "check"
  /\ rr_node' = 1
  /\ UNCHANGED <<mux_lib, graph_edges, rr_supported, link_calls, link_status, link_leaves>>

\* one pass of the loop of is_vpr_rr_graph_supported over the nodes, and
\* its return true after the last pass
CheckNode ==
  /\ link_pc = "check"
  /\ IF rr_node > Len(rr_graph)
     THEN /\ rr_supported' = "true"
          /\ link_pc' = "checked"
          /\ UNCHANGED rr_node
     ELSE IF ~is_routing_track(rr_graph[rr_node])
     THEN /\ rr_node' = rr_node + 1
          /\ UNCHANGED <<rr_supported, link_pc>>
     ELSE IF is_unsupported_direction(rr_graph[rr_node].direction)
     THEN /\ rr_supported' = "false"
          /\ link_pc' = "checked"
          /\ UNCHANGED rr_node
     ELSE /\ rr_node' = rr_node + 1
          /\ UNCHANGED <<rr_supported, link_pc>>
  /\ UNCHANGED <<mux_lib, graph_edges, link_calls, link_status, link_leaves>>

\* the test of the result left out: link_arch goes on whatever it is
stops_on_unsupported_never(supported) == FALSE

\* if (false == is_vpr_rr_graph_supported(...)) return CMD_EXEC_FATAL_ERROR
stops_on_unsupported(supported) == "false" = supported

\* link_arch after the check: the return on an unsupported graph, or
\* build_in_edges, whose result the assertion on validate_in_edges tests
BuildInEdges ==
  /\ link_pc = "checked"
  /\ IF stops_on_unsupported(rr_supported)
     THEN /\ link_pc' = "returned"
          /\ link_status' = "CMD_EXEC_FATAL_ERROR"
          /\ UNCHANGED link_calls
     ELSE /\ link_calls' = link_calls \cup {"build_in_edges"}
          /\ \E valid \in BOOLEAN :
                link_pc' = IF valid THEN "in_edges" ELSE "fatal"
          /\ UNCHANGED link_status
  /\ UNCHANGED <<mux_lib, graph_edges, rr_node, rr_supported, link_leaves>>

\* annotate_device_rr_gsb, and the sorting of the incoming edges when the
\* option asks for it
AnnotateDeviceRrGsb ==
  /\ link_pc = "in_edges"
  /\ \E sort_edge \in BOOLEAN :
        link_calls' = link_calls \cup {"annotate_device_rr_gsb"}
                        \cup (IF TRUE = sort_edge
                              THEN {"sort_device_rr_gsb_chan_node_in_edges",
                                    "sort_device_rr_gsb_ipin_node_in_edges"}
                              ELSE {})
  /\ link_pc' = "gsb"
  /\ UNCHANGED <<mux_lib, graph_edges, rr_node, rr_supported, link_status, link_leaves>>

\* openfpga_ctx.mutable_mux_lib() = build_device_mux_library(...), then the
\* tile direct annotation and the clustering results, which may fail
BuildMuxLibrary ==
  /\ link_pc = "gsb"
  /\ mux_lib' \in DeviceMuxLibraries
  /\ graph_edges' = NoEdgesRead
  /\ link_calls' = link_calls \cup {"build_device_mux_library"}
  /\ \E status \in {"CMD_EXEC_SUCCESS", "CMD_EXEC_FATAL_ERROR"} :
        IF "CMD_EXEC_FATAL_ERROR" = status
        THEN link_pc' = "returned" /\ link_status' = "CMD_EXEC_FATAL_ERROR"
        ELSE link_pc' = "clustering" /\ UNCHANGED link_status
  /\ UNCHANGED <<rr_node, rr_supported, link_leaves>>

\* the placement results, the activity file and annotate_simulation_setting,
\* which may fail
AnnotateSimulationSetting ==
  /\ link_pc = "clustering"
  /\ \E status \in {"CMD_EXEC_SUCCESS", "CMD_EXEC_FATAL_ERROR"} :
        IF "CMD_EXEC_FATAL_ERROR" = status
        THEN link_pc' = "returned" /\ link_status' = "CMD_EXEC_FATAL_ERROR"
        ELSE link_pc' = "simulation" /\ UNCHANGED link_status
  /\ UNCHANGED <<mux_lib, graph_edges, rr_node, rr_supported, link_calls, link_leaves>>

\* annotate_bitstream_setting, which may fail, and the return of link_arch
AnnotateBitstreamSetting ==
  /\ link_pc = "simulation"
  /\ \E status \in {"CMD_EXEC_SUCCESS", "CMD_EXEC_FATAL_ERROR"} :
        link_status' = status
  /\ link_pc' = "returned"
  /\ UNCHANGED <<mux_lib, graph_edges, rr_node, rr_supported, link_calls, link_leaves>>

NextLink ==
  \/ link_arch
  \/ CheckNode
  \/ BuildInEdges
  \/ AnnotateDeviceRrGsb
  \/ BuildMuxLibrary
  \/ AnnotateSimulationSetting
  \/ AnnotateBitstreamSetting

SpecLink == InitLink /\ [][NextLink]_vars

(* ------------------------- notions of the claims ----------------------- *)
IsCmos == circuit_model.design_tech = "CIRCUIT_MODEL_DESIGN_CMOS"
IsRram == circuit_model.design_tech = "CIRCUIT_MODEL_DESIGN_RRAM"

\* the call has started
Called == pc # "idle"

\* the raw bits have been decoded
Decoded == pc \in {"copied", "encoding", "returned"} \/ fatal_at = "encoder_data"

\* the positions (from 0) within a level whose raw bit is set
SetPositions(raw, mems) == {p \in 0..(Len(mems) - 1) : raw[mems[p + 1] + 1]}

\* the least w with 2^w >= n
CeilLog2(n) == CHOOSE w \in 0..n : Pow2(w) >= n /\ (w = 0 \/ Pow2(w - 1) < n)

BitOf(b) == IF b THEN 1 ELSE 0

\* the unsigned integer a bit sequence denotes, most significant bit first
RECURSIVE ValueMsbFirst(_)
ValueMsbFirst(bits) ==
  IF bits = <<>> THEN 0
  ELSE 2 * ValueMsbFirst(SubSeq(bits, 1, Len(bits) - 1)) + BitOf(bits[Len(bits)])

\* the same, least significant bit first
RECURSIVE ValueLsbFirst(_)
ValueLsbFirst(bits) ==
  IF bits = <<>> THEN 0
  ELSE BitOf(Head(bits)) + 2 * ValueLsbFirst(Tail(bits))

\* the value of a code in the bit order of the encoder
CodeValue(bits) == IF msb_first THEN ValueMsbFirst(bits) ELSE ValueLsbFirst(bits)

\* the bits a step has appended to mux_bitstream
Appended == SubSeq(mux_bitstream', Len(mux_bitstream) + 1, Len(mux_bitstream'))

\* a step of the encoding loop that went through one level
EncodedOneLevel == pc = "encoding" /\ level' = level + 1

(* -------------------------------- C1 ----------------------------------- *)
\* C1: with a local encoder, when a level of two or more memories has two or
\* more raw bits set, the call never returns and the loop never goes past
\* that level: no code is pushed for it
C1_RejectionLaw ==
  \A lvl \in 1..Len(mux_graph.levels) :
     (/\ IsCmos /\ Decoded
      /\ circuit_model.use_local_encoder
      /\ Cardinality(SetPositions(raw_bitstream, mux_graph.levels[lvl])) >= 2)
     => (pc # "returned" /\ level < lvl)

\* the assertion on encoder_data has ended a call at the second level
C1_Witness ==
  /\ pc = "fatal" /\ fatal_at = "encoder_data"
  /\ level = 1
  /\ Cardinality(SetPositions(raw_bitstream, mux_graph.levels[2])) = 2

(* -------------------------------- C2 ----------------------------------- *)
\* C2: on a CMOS model, a call with an explicit path id outside
\* [0, mux_size) ends fatally with no bitstream, whatever the number of
\* inputs of the graph
C2_ExplicitPathRejected ==
  (/\ IsCmos /\ pc \notin {"idle", "cmos"}
   /\ path_id # DEFAULT_PATH_ID
   /\ ~(0 <= path_id /\ path_id < mux_size))
  => (pc = "fatal" /\ mux_bitstream = <<>> /\ raw_bitstream = <<>>)

\* an explicit path id beyond mux_size is rejected although the graph has an
\* input of that index
C2_Witness ==
  /\ pc = "fatal" /\ fatal_at = "path_id"
  /\ path_id = mux_size + 1
  /\ mux_graph.num_inputs > path_id
  /\ mux_graph.num_outputs = 1

C4_UnknownTechFatal ==
  (~IsCmos /\ ~IsRram /\ Called)
  => (pc = "fatal" /\ fatal_at = "exit" /\ mux_bitstream = <<>>)

C4_Witness == ~IsCmos /\ ~IsRram /\ pc = "fatal" /\ fatal_at = "exit"

(* -------------------------------- C5 ----------------------------------- *)
\* the size_t of a small natural number
IsSizeT(a, n) == a = [k \in 1..SizeTLimbs |-> IF k = 1 THEN n ELSE 0]

\* C5: find_mux_default_path_id(model, N) is N-1 for a model with a constant
\* input and 0 for a model without one, for every size N >= 1; a call with
\* the default sentinel resolves its datapath id so
C5_DefaultPathLaw ==
  /\ \A N \in 1..(MaxMuxSize + 1) :
        IsSizeT(find_mux_default_path_id(circuit_model, N),
                IF circuit_model.add_const_input THEN N - 1 ELSE 0)
  /\ (IsCmos /\ pc \in {"resolved", "copied", "encoding", "returned"}
      /\ path_id = DEFAULT_PATH_ID)
     => IsSizeT(datapath_id,
                IF circuit_model.add_const_input
                THEN implemented_mux_size - 1 ELSE 0)

\* a default request on a model with a constant input has resolved to the
\* last input of an implemented multiplexer of four inputs
C5_Witness ==
  /\ pc = "resolved" /\ path_id = DEFAULT_PATH_ID
  /\ circuit_model.add_const_input
  /\ implemented_mux_size = 4
  /\ IsSizeT(datapath_id, 3)

(* -------------------------------- C6 ----------------------------------- *)
\* C6: when the loop goes through a level of L >= 2 memories whose raw bits
\* have exactly one bit set, at position p of the level, it appends exactly
\* ceil(log2(L)) bits and these, read as an unsigned integer in the bit
\* order of the encoder, are p
C6_LocalEncoderRoundTrip ==
  [][ EncodedOneLevel =>
        LET mems == mux_graph.levels[level + 1]
            set  == SetPositions(raw_bitstream, mems)
        IN (Len(mems) >= 2 /\ Cardinality(set) = 1)
           => /\ Len(mux_bitstream') = Len(mux_bitstream) + CeilLog2(Len(mems))
              /\ SubSeq(mux_bitstream', 1, Len(mux_bitstream)) = mux_bitstream
              /\ \A p \in set : CodeValue(Appended) = p ]_vars

\* the loop has gone through a level of three memories whose last memory
\* alone is set, and has pushed two bits for it, of value 2
C6_Witness ==
  /\ pc = "encoding" /\ level = 1
  /\ Len(mux_graph.levels[1]) = 3
  /\ SetPositions(raw_bitstream, mux_graph.levels[1]) = {2}
  /\ Len(mux_bitstream) = 2
  /\ CodeValue(mux_bitstream) = 2

(* -------------------------------- C7 ----------------------------------- *)
\* C7: when the loop goes through a level of exactly one memory, it appends
\* exactly one bit, the raw bit of that memory
C7_SingleMemoryLevel ==
  [][ (EncodedOneLevel /\ Len(mux_graph.levels[level + 1]) = 1)
      => mux_bitstream' =
           Append(mux_bitstream, raw_bitstream[mux_graph.levels[level + 1][1] + 1]) ]_vars

\* the loop has gone through two levels of one memory each, the first with
\* its raw bit false and the second with its raw bit true
C7_Witness ==
  /\ pc = "encoding" /\ level = 2
  /\ Len(mux_graph.levels[1]) = 1 /\ Len(mux_graph.levels[2]) = 1
  /\ raw_bitstream[1] = FALSE /\ raw_bitstream[2] = TRUE
  /\ mux_bitstream = <<FALSE, TRUE>>

(* -------------------------------- C8 ----------------------------------- *)
\* C8: without a local encoder, the bitstream a CMOS call returns has one
\* bit per memory of the graph, the i-th being the raw bit of memory id i
C8_RawReturnedUnchanged ==
  (IsCmos /\ pc = "returned" /\ ~circuit_model.use_local_encoder)
  => /\ Len(mux_bitstream) = num_memory_bits(mux_graph)
     /\ \A i \in 0..(num_memory_bits(mux_graph) - 1) :
           mux_bitstream[i + 1] = raw_bitstream[i + 1]

\* a call without local encoder has returned three raw bits of which the
\* first alone is true
C8_Witness ==
  /\ IsCmos /\ pc = "returned" /\ ~circuit_model.use_local_encoder
  /\ mux_bitstream = <<TRUE, FALSE, FALSE>>

(* -------------------------------- C9 ----------------------------------- *)
\* C9: once the checks on the graph and the input have passed, the raw bits
\* are one per memory of the graph; the bit of a memory is true only if the
\* memory controls an edge from the selected input to the output and that
\* edge does not use the inverted memory
C9_DecodeMarksSelectedPath ==
  (IsCmos /\ Decoded)
  => /\ mux_graph.num_outputs = 1
     /\ Len(raw_bitstream) = num_memory_bits(mux_graph)
     /\ \A m \in 0..(num_memory_bits(mux_graph) - 1) :
           raw_bitstream[m + 1] = TRUE
           => \E e \in sel_edges : e.mem = m /\ e.inv = FALSE

\* the selected input has one edge that uses the inverted memory and one
\* that does not: the raw bits mark the memory of the second only
C9_Witness ==
  /\ pc = "copied"
  /\ sel_edges = {[mem |-> 0, inv |-> TRUE], [mem |-> 2, inv |-> FALSE]}
  /\ raw_bitstream = <<FALSE, FALSE, TRUE>>

(* -------------------------------- C10 ---------------------------------- *)
\* the width of the code of a level of n memories
LevelWidth(n) == IF n = 1 THEN 1 ELSE CeilLog2(n)

\* the code of a level whose raw bits pass the at-most-one-set rule: the raw
\* bit of a single memory; otherwise the bits, as many as the width, whose
\* value is the position of the bit set (0 when none is)
LevelCode(mems) ==
  IF Len(mems) = 1 THEN <<raw_bitstream[mems[1] + 1]>>
  ELSE LET set == SetPositions(raw_bitstream, mems)
           p   == IF set = {} THEN 0 ELSE CHOOSE q \in set : TRUE
       IN CHOOSE c \in [1..LevelWidth(Len(mems)) -> BOOLEAN] : CodeValue(c) = p

\* the codes of the first n levels, one after the other in level order
RECURSIVE CodesUpTo(_)
CodesUpTo(n) ==
  IF n = 0 THEN <<>>
  ELSE CodesUpTo(n - 1) \o LevelCode(mux_graph.levels[n])

\* C10: with a local encoder, the bitstream returned is exactly the codes of
\* the levels one after the other in level order: nothing of the raw copy
\* stays in front of them
C10_LevelByLevelConcatenation ==
  (IsCmos /\ pc = "returned" /\ circuit_model.use_local_encoder)
  => mux_bitstream = CodesUpTo(Len(mux_graph.levels))

\* a call has returned the codes of a level of two memories (address 1) and
\* of a level of one memory (bit false), in that order
C10_Witness ==
  /\ IsCmos /\ pc = "returned" /\ circuit_model.use_local_encoder
  /\ mux_graph.levels = <<<<0, 1>>, <<2>>>>
  /\ raw_bitstream = <<FALSE, TRUE, FALSE>>
  /\ mux_bitstream = <<TRUE, FALSE>>

(* -------------------------------- C11 ---------------------------------- *)
\* the number of bits the first n levels contribute to the encoded bitstream
RECURSIVE WidthsUpTo(_)
WidthsUpTo(n) ==
  IF n = 0 THEN 0
  ELSE WidthsUpTo(n - 1) + LevelWidth(Len(mux_graph.levels[n]))

\* C11: with a local encoder, a level of two or more memories none of whose
\* raw bits is set never ends the call; once the loop has gone through it,
\* the level has contributed exactly ceil(log2(size of the level)) bits, all
\* false, right after the bits of the levels before it
C11_NoneSetIsAddressZero ==
  \A lvl \in 1..Len(mux_graph.levels) :
     (/\ IsCmos /\ Decoded
      /\ circuit_model.use_local_encoder
      /\ Len(mux_graph.levels[lvl]) >= 2
      /\ SetPositions(raw_bitstream, mux_graph.levels[lvl]) = {})
     => /\ ~(pc = "fatal" /\ level = lvl - 1)
        /\ (pc \in {"encoding", "returned"} /\ level >= lvl)
           => /\ WidthsUpTo(lvl) =
                   WidthsUpTo(lvl - 1) + CeilLog2(Len(mux_graph.levels[lvl]))
              /\ Len(mux_bitstream) >= WidthsUpTo(lvl)
              /\ level = lvl => Len(mux_bitstream) = WidthsUpTo(lvl)
              /\ \A i \in (WidthsUpTo(lvl - 1) + 1)..WidthsUpTo(lvl) :
                    mux_bitstream[i] = FALSE

\* the loop has gone through a level of one memory whose bit is set and then
\* through a level of two memories with no bit set: one false bit follows
\* the bit of the first level
C11_Witness ==
  /\ pc = "encoding" /\ level = 2
  /\ mux_graph.levels = <<<<0>>, <<1, 2>>>>
  /\ raw_bitstream = <<TRUE, FALSE, FALSE>>
  /\ mux_bitstream = <<TRUE, FALSE>>

(* -------------------------------- C12 ---------------------------------- *)
\* the datapath id the call has resolved is smaller than n
ResolvedBelow(n) == \E k \in 0..(n - 1) : IsSizeT(datapath_id, k)

\* C12: on a CMOS model, when the graph found for mux_size has not exactly
\* one output, or the datapath id resolved from an explicit or a default
\* path id is not smaller than the number of inputs of the graph, the call
\* ends fatally with no memory bit decoded
C12_GraphChecksBeforeDecode ==
  (/\ IsCmos /\ pc \notin {"idle", "cmos"}
   /\ mux_graph_registered(mux_lib, mux_size)
   /\ \/ mux_graph.num_outputs # 1
      \/ ~ResolvedBelow(mux_graph.num_inputs))
  => /\ pc = "fatal"
     /\ fatal_at \in {"path_id", "inputs", "outputs"}
     /\ sel_edges = {}
     /\ raw_bitstream = <<>>
     /\ mux_bitstream = <<>>

\* a default path request on a model with a constant input resolves to
\* input 2 of a graph that has two inputs and one output: the call ends at
\* the check against the inputs of the graph
C12_Witness ==
  /\ pc = "fatal" /\ fatal_at = "inputs"
  /\ path_id = DEFAULT_PATH_ID
  /\ IsSizeT(datapath_id, 2)
  /\ mux_graph.num_inputs = 2 /\ mux_graph.num_outputs = 1
  /\ raw_bitstream = <<>>

\* an explicit path id within the inputs of a graph with two outputs: the
\* call ends at the check on the outputs
C12_WitnessOutputs ==
  /\ pc = "fatal" /\ fatal_at = "outputs"
  /\ path_id = 0
  /\ mux_graph.num_outputs = 2
  /\ raw_bitstream = <<>>

(* -------------------------------- C13 ---------------------------------- *)
\* an invocation has ended: it has returned, or a check of it has ended the
\* process
Ended(inv) == inv.pc \in {"returned", "fatal"}

\* C13: two invocations of one process called with the same mux_size and
\* path_id on the same circuit model and library end the same way: both
\* return, and return the same bits, or both fail; whatever the other has
\* done before or in between changes nothing
C13_Determinism ==
  (/\ Ended(call_locals) /\ Ended(suspended)
   /\ mux_size = suspended.mux_size
   /\ path_id = suspended.path_id)
  => /\ pc = suspended.pc
     /\ mux_bitstream = suspended.mux_bitstream

\* two CMOS invocations with a local encoder, both called with the default
\* path id, have both returned the bit true
C13_Witness ==
  /\ IsCmos /\ circuit_model.use_local_encoder
  /\ pc = "returned" /\ suspended.pc = "returned"
  /\ path_id = DEFAULT_PATH_ID /\ suspended.path_id = DEFAULT_PATH_ID
  /\ mux_size = suspended.mux_size
  /\ mux_bitstream = <<TRUE>> /\ suspended.mux_bitstream = <<TRUE>>

(* -------------------------------- C14 ---------------------------------- *)
\* C14: no step of a call, of one that returns or of one that fails, changes
\* the circuit model, the library or the graph in it: the size a graph is
\* registered under, its inputs, outputs, levels and memories stay, the
\* edges read once are the edges read again, and nothing outside the call
\* is written
C14_LibraryUntouched ==
  [][ /\ circuit_model' = circuit_model
      /\ mux_lib' = mux_lib
      /\ \A input \in DOMAIN graph_edges :
            /\ input \in DOMAIN graph_edges'
            /\ graph_edges'[input] = graph_edges[input]
      /\ other_vars' = other_vars ]_vars

\* a call with a local encoder has ended at the assertion on encoder_data,
\* after the graph was looked up and the edges of its input 1 were read
C14_Witness ==
  /\ pc = "fatal" /\ fatal_at = "encoder_data"
  /\ mux_graph_registered(mux_lib, mux_size)
  /\ DOMAIN graph_edges = {1}

(* -------------------------------- C15 ---------------------------------- *)
\* what the loop over the levels has pushed after n levels when it runs
\* with nothing else running, and whether its assertion has failed
RECURSIVE EncodedUpTo(_, _, _)
EncodedUpTo(raw, g, n) ==
  IF n = 0 THEN [failed |-> FALSE, bits |-> <<>>]
  ELSE LET before == EncodedUpTo(raw, g, n - 1)
           mems   == memories_at_level(g, n)
           data   == encoder_data(raw, mems)
       IN IF before.failed THEN before
          ELSE IF single_memory_level(mems)
          THEN [failed |-> FALSE,
                bits |-> before.bits \o single_memory_bits(raw, mems)]
          ELSE IF ~at_most_one_set(data)
          THEN [failed |-> TRUE, bits |-> <<>>]
          ELSE [failed |-> FALSE,
                bits |-> before.bits
                         \o addr_bits(encoder_addr(data, Len(mems), msb_first))]

Failure == [outcome |-> "fatal", bits |-> <<>>]

\* the result of build_mux_bitstream(size, path) when it runs alone, route
\* being the edges of the graph from the input it selects to the output
Alone(size, path, route) ==
  LET branch == design_tech_branch(circuit_model.design_tech)
      impl   == find_mux_implementation_num_inputs(circuit_model, size)
      dp     == resolve_datapath_id(circuit_model, impl, path)
      raw    == decode_memory_bits(mux_graph, route)
      coded  == EncodedUpTo(raw, mux_graph, Len(mux_graph.levels))
  IN IF branch = "break" THEN [outcome |-> "returned", bits |-> <<>>]
     ELSE IF branch = "exit" THEN Failure
     ELSE IF ~mux_graph_registered(mux_lib, size) THEN Failure
     ELSE IF DEFAULT_PATH_ID # path /\ ~explicit_path_in_range(dp, size)
     THEN Failure
     ELSE IF ~path_in_graph(dp, mux_graph) \/ ~single_output(mux_graph)
     THEN Failure
     ELSE IF returns_raw(circuit_model)
     THEN [outcome |-> "returned", bits |-> copy_raw_bitstream(raw)]
     ELSE IF coded.failed THEN Failure
     ELSE [outcome |-> "returned", bits |-> coded.bits]

AloneOf(inv) == Alone(inv.mux_size, inv.path_id, inv.sel_edges)

\* an invocation that has ended has ended as it would alone
EndedAsAlone(inv) ==
  /\ inv.pc = "returned"
       => AloneOf(inv) = [outcome |-> "returned", bits |-> inv.mux_bitstream]
  /\ inv.pc = "fatal" => AloneOf(inv).outcome = "fatal"

\* the vectors of an invocation under way are those of its own input: the
\* raw bits decoded from the edges of that input, and the copy of them or
\* the codes of the levels its own loop has gone through
OwnVectors(inv) ==
  (IsCmos /\ inv.pc \in {"copied", "encoding", "returned"})
  => /\ inv.sel_edges = graph_edges[MuxInputId(inv.datapath_id)]
     /\ inv.raw_bitstream = decode_memory_bits(mux_graph, inv.sel_edges)
     /\ inv.pc = "copied"
          => inv.mux_bitstream = copy_raw_bitstream(inv.raw_bitstream)
     /\ inv.pc = "encoding"
          => inv.mux_bitstream =
               EncodedUpTo(inv.raw_bitstream, mux_graph, inv.level).bits

\* C15 amended: under every interleaving of two invocations on one library,
\* an invocation that ends has ended as it would alone, and the vectors of
\* an invocation under way are never those of the other
C15_EndedAsAlone ==
  \A inv \in {call_locals, suspended} : EndedAsAlone(inv) /\ OwnVectors(inv)

\* C15 as stated: every interleaving gives each invocation the result it
\* would produce alone; in particular an invocation that has decoded its
\* raw bits and would return when run alone is not left without a result
\* by the end of the process
C15_EachAsAlone ==
  /\ C15_EndedAsAlone
  /\ (pc = "fatal" /\ suspended.pc \in {"copied", "encoding"})
       => AloneOf(suspended).outcome = "fatal"

\* one invocation has returned the bit true while the other, called with
\* another path id, is in its loop over the levels with the raw bit false
C15_Witness ==
  /\ IsCmos
  /\ pc = "returned" /\ mux_bitstream = <<TRUE>>
  /\ suspended.pc = "encoding" /\ suspended.level = 0
  /\ suspended.raw_bitstream = <<FALSE>>
  /\ suspended.path_id # path_id

(* -------------------------------- C16 ---------------------------------- *)
\* C16: a CMOS model with no constant input and no local encoder, on the
\* one-level graph of N inputs in which memory i controls input i: a call
\* with an explicit path id p that returns has 0 <= p < N and returns N
\* bits of which the bit of index p alone is true; and every such p returns
C16_OneHot ==
  (/\ IsCmos
   /\ ~circuit_model.add_const_input /\ ~circuit_model.use_local_encoder
   /\ path_id # DEFAULT_PATH_ID)
  => /\ pc = "returned"
       => /\ 0 <= path_id /\ path_id < mux_size
          /\ Len(mux_bitstream) = mux_size
          /\ \A i \in 0..(mux_size - 1) : mux_bitstream[i + 1] = (i = path_id)
     /\ (pc = "fatal" /\ mux_graph_registered(mux_lib, mux_size))
       => ~(0 <= path_id /\ path_id < mux_size)

\* N = 4 and p = 2: the bits returned are true at index 2 only
C16_Witness ==
  /\ IsCmos
  /\ ~circuit_model.add_const_input /\ ~circuit_model.use_local_encoder
  /\ pc = "returned"
  /\ mux_size = 4 /\ path_id = 2
  /\ mux_bitstream = <<FALSE, FALSE, TRUE, FALSE>>

(* -------------------------------- C17 ---------------------------------- *)
\* a call with an explicit path id on a CMOS model with a local encoder and
\* no constant input has returned
ReturnedEncodedExplicit ==
  /\ IsCmos
  /\ ~circuit_model.add_const_input /\ circuit_model.use_local_encoder
  /\ path_id # DEFAULT_PATH_ID
  /\ pc = "returned"

\* C17 as stated: on the one-level graph of N inputs, for every N, a call
\* with a local encoder and an explicit path id p returns exactly
\* ceil(log2(N)) bits, whose value in the bit order of the encoder is p
C17_EncodedLaw ==
  ReturnedEncodedExplicit
  => /\ Len(mux_bitstream) = CeilLog2(mux_size)
     /\ CodeValue(mux_bitstream) = path_id

\* C17 amended: the same for N >= 2; for N = 1 the level has one memory and
\* the call returns one bit, the raw bit of that memory, which is true
C17_EncodedLawFromTwoInputs ==
  ReturnedEncodedExplicit
  => /\ 0 <= path_id /\ path_id < mux_size
     /\ mux_size >= 2
          => /\ Len(mux_bitstream) = CeilLog2(mux_size)
             /\ CodeValue(mux_bitstream) = path_id
     /\ mux_size = 1 => mux_bitstream = <<TRUE>>

\* N = 4 and p = 2: two bits are returned, of value 2
C17_Witness ==
  /\ ReturnedEncodedExplicit
  /\ mux_size = 4 /\ path_id = 2
  /\ Len(mux_bitstream) = 2
  /\ CodeValue(mux_bitstream) = 2
  /\ mux_bitstream = IF msb_first THEN <<TRUE, FALSE>> ELSE <<FALSE, TRUE>>

(* -------------------------------- C18 ---------------------------------- *)
\* C18: on a CMOS model with a constant input whose implemented multiplexer
\* has 4 inputs, a call with the default path id on the registered size
\* does not fail at its checks and resolves the datapath id to 3, the last
\* input; the raw bits decoded are those of the edges read at input 3 of
\* the graph: in the one-level graph, memory 3 alone
C18_DefaultIsLastInput ==
  (/\ IsCmos /\ circuit_model.add_const_input
   /\ path_id = DEFAULT_PATH_ID
   /\ pc \notin {"idle", "cmos"}
   /\ mux_graph_registered(mux_lib, mux_size)
   /\ implemented_mux_size = 4)
  => /\ IsSizeT(datapath_id, 3)
     /\ pc # "fatal"
     /\ Decoded
          => /\ sel_edges = graph_edges[3]
             /\ raw_bitstream = <<FALSE, FALSE, FALSE, TRUE>>

\* the call has decoded the raw bits of input 3 of the 4-input multiplexer
C18_Witness ==
  /\ IsCmos /\ circuit_model.add_const_input
  /\ path_id = DEFAULT_PATH_ID
  /\ implemented_mux_size = 4 /\ mux_graph.num_inputs = 4
  /\ pc = "copied"
  /\ IsSizeT(datapath_id, 3)
  /\ raw_bitstream = <<FALSE, FALSE, FALSE, TRUE>>

(* -------------------------------- C20 ---------------------------------- *)
\* C20: once the graph is found for mux_size, an explicit path id in
\* [mux_size, implemented size) ends the call at the check against
\* mux_size, whatever the inputs of the graph; an explicit path id in
\* [0, mux_size) is the datapath id, whatever the implemented size; a default
\* request never ends at the check against mux_size, and with a constant
\* input it resolves to the implemented size less one, which is mux_size
\* itself, and goes on to decode when the graph has that input
C20_SizesKeptApart ==
  (IsCmos /\ pc \notin {"idle", "cmos"} /\ mux_graph_registered(mux_lib, mux_size))
  => /\ (/\ path_id # DEFAULT_PATH_ID
         /\ mux_size <= path_id /\ path_id < implemented_mux_size)
        => (pc = "fatal" /\ fatal_at = "path_id")
     /\ (/\ path_id # DEFAULT_PATH_ID
         /\ 0 <= path_id /\ path_id < mux_size)
        => IsSizeT(datapath_id, path_id)
     /\ path_id = DEFAULT_PATH_ID
        => /\ fatal_at # "path_id"
           /\ circuit_model.add_const_input
                => /\ IsSizeT(datapath_id, implemented_mux_size - 1)
                   /\ IsSizeT(datapath_id, mux_size)
                   /\ (mux_graph.num_inputs > mux_size
                       /\ mux_graph.num_outputs = 1)
                      => Decoded \/ pc = "resolved"

\* a default request on a model with a constant input has resolved to
\* mux_size itself, 2, and the raw bits of that input have been decoded
C20_Witness ==
  /\ IsCmos /\ circuit_model.add_const_input
  /\ path_id = DEFAULT_PATH_ID
  /\ mux_size = 2 /\ implemented_mux_size = 3
  /\ IsSizeT(datapath_id, 2)
  /\ pc = "copied"

\* the explicit path id 2 with mux_size 2 and implemented size 3 has ended
\* the call although the graph has an input 2
C20_WitnessExplicit ==
  /\ IsCmos /\ circuit_model.add_const_input
  /\ path_id = 2 /\ mux_size = 2 /\ implemented_mux_size = 3
  /\ mux_graph.num_inputs = 3
  /\ pc = "fatal" /\ fatal_at = "path_id"

(* -------------------------------- C19 ---------------------------------- *)
\* the generator is through with the graph: it has returned early, written
\* the whole module, or failed an assertion
GenerationOver == gen_pc \in {"returned", "done", "fatal"}

\* an input is joined to the output by two or more edges
SomePairWithSeveralEdges ==
  \E input \in 0..(branch_graph.num_inputs - 1) : branch_graph.num_edges[input] >= 2

\* the instances written are, in the order of the inputs, one for each of
\* the first n inputs that has an edge to the output, and none for an input
\* that has none
InstancesOfFirst(n) ==
  /\ \A k \in 1..Len(tgates) :
        /\ tgates[k].in < n
        /\ branch_graph.num_edges[tgates[k].in] # 0
        /\ \A j \in 1..(k - 1) : tgates[j].in < tgates[k].in
  /\ \A input \in 0..(n - 1) :
        branch_graph.num_edges[input] # 0
        => \E k \in 1..Len(tgates) : tgates[k].in = input

\* C19 as stated: whatever graph the generator is handed, a pair joined by
\* two or more edges makes it fail an assertion, so that a graph it does not
\* fail on has at most one edge for each pair; and it writes no instance
\* for a pair with no edge
C19_AtMostOneEdge ==
  /\ (GenerationOver /\ SomePairWithSeveralEdges) => gen_pc = "fatal"
  /\ gen_pc \in {"loop", "done"} => InstancesOfFirst(gen_input)

\* C19 amended: the same when the pass-gate model is not a gate; when it is
\* a MUX2 gate the generator returns at once, and neither looks at the edges
\* of the graph nor writes an instance
C19_AtMostOneEdgeUnlessGate ==
  /\ (/\ GenerationOver /\ SomePairWithSeveralEdges
      /\ tgate_model.model_type # "SPICE_MODEL_GATE")
     => gen_pc = "fatal"
  /\ gen_pc \in {"loop", "done"} => InstancesOfFirst(gen_input)
  /\ tgate_model.model_type = "SPICE_MODEL_GATE"
     => (gen_pc \in {"idle", "returned", "fatal"} /\ tgates = <<>>)
  /\ gen_pc = "returned"
     => /\ tgate_model.model_type = "SPICE_MODEL_GATE"
        /\ tgate_model.gate_type = "SPICE_MODEL_GATE_MUX2"

\* input 0 has no edge, input 1 has one and input 2 has two: one instance
\* was written, for input 1, before the assertion on the edges failed at
\* input 2
C19_Witness ==
  /\ gen_pc = "fatal" /\ gen_fatal_at = "edges"
  /\ gen_input = 2
  /\ branch_graph.num_edges = [input \in 0..2 |-> input]
  /\ Len(tgates) = 1 /\ tgates[1].in = 1

(* -------------------------------- C21 ---------------------------------- *)
\* a CMOS call has got past the lookup of the graph
GraphFound == IsCmos /\ pc \notin {"idle", "cmos"} /\ fatal_at # "lookup"

\* C21 as stated: the graph a call encodes against is the one the library
\* holds under the implemented size
C21_GraphUnderImplementedSize ==
  GraphFound => mux_lib.size = implemented_mux_size

\* C21 amended: the graph a call encodes against is the one the library
\* holds under mux_size; a library that holds a graph under another size
\* only, the implemented size included, ends the call at the lookup
C21_GraphUnderDatapathSize ==
  /\ GraphFound => mux_lib.size = mux_size
  /\ (IsCmos /\ pc \notin {"idle", "cmos"} /\ mux_lib.size # mux_size)
     => (pc = "fatal" /\ fatal_at = "lookup" /\ raw_bitstream = <<>>)

\* with a constant input, mux_size 2 and implemented size 3, a call has
\* decoded against the graph registered under 2
C21_Witness ==
  /\ IsCmos /\ circuit_model.add_const_input
  /\ mux_size = 2 /\ implemented_mux_size = 3
  /\ mux_lib.size = 2
  /\ pc = "copied"

\* with a constant input, mux_size 2 and a graph registered under the
\* implemented size 3, the call has ended at the lookup
C21_WitnessLookup ==
  /\ IsCmos /\ circuit_model.add_const_input
  /\ mux_size = 2 /\ implemented_mux_size = 3
  /\ mux_lib.size = 3
  /\ pc = "fatal" /\ fatal_at = "lookup"

(* -------------------------------- C22 ---------------------------------- *)
\* C22: with a local encoder, a call that returns has returned as many bits
\* as the levels of the graph call for: 1 for a level of one memory,
\* ceil(log2(size)) for a level of two or more; the number is that of the
\* graph, whatever the path id, the edges read and the raw bits
C22_EncodedLength ==
  (IsCmos /\ pc = "returned" /\ circuit_model.use_local_encoder)
  => /\ Len(mux_bitstream) = WidthsUpTo(Len(mux_graph.levels))
     /\ \A lvl \in 1..Len(mux_graph.levels) :
           WidthsUpTo(lvl) - WidthsUpTo(lvl - 1) =
             IF Len(mux_graph.levels[lvl]) = 1 THEN 1
             ELSE CeilLog2(Len(mux_graph.levels[lvl]))

\* a graph of a level of one memory and a level of two: the call has
\* returned 1 + 1 bits, for the path through memory 2
C22_Witness ==
  /\ IsCmos /\ pc = "returned" /\ circuit_model.use_local_encoder
  /\ mux_graph.levels = <<<<0>>, <<1, 2>>>>
  /\ raw_bitstream = <<FALSE, FALSE, TRUE>>
  /\ Len(mux_bitstream) = 2

(* -------------------------------- C23 ---------------------------------- *)
\* the edge of an input of the one-level graph
EdgeOf(input) == CHOOSE e \in graph_edges[input] : TRUE

\* the value of a pin of the memory ports under the raw bits: mem[m] is the
\* raw bit of memory m and mem_inv[m] its complement
PinValue(p) ==
  IF p.port = "mem" THEN raw_bitstream[p.pin + 1] ELSE ~raw_bitstream[p.pin + 1]

\* C23: every instance the generator has written wires its enable to mem[m]
\* when the edge of its input does not use the inverted memory and to
\* mem_inv[m] when it does, m being the memory of that edge; and once the
\* raw bits of a selected input are decoded, mem[m] of its edge is 1 when
\* the edge is not inverted and 0 when it is, so that the enable of the
\* instance of that input is 1 and its complement 0
C23_NetlistAgreesWithBitstream ==
  /\ \A k \in 1..Len(tgates) :
        /\ tgates[k].sel.pin = EdgeOf(tgates[k].in).mem
        /\ tgates[k].sel.port =
             IF EdgeOf(tgates[k].in).inv THEN "mem_inv" ELSE "mem"
  /\ (gen_pc = "done" /\ pc \in {"copied", "returned"})
     => /\ raw_bitstream[EdgeOf(MuxInputId(datapath_id)).mem + 1] =
             ~EdgeOf(MuxInputId(datapath_id)).inv
        /\ \E k \in 1..Len(tgates) : tgates[k].in = MuxInputId(datapath_id)
        /\ \A k \in 1..Len(tgates) :
              tgates[k].in = MuxInputId(datapath_id)
              => (PinValue(tgates[k].sel) = TRUE /\ PinValue(tgates[k].sel_inv) = FALSE)

\* input 1 is selected and its edge uses the inverse of memory 0: the raw
\* bit of memory 0 is false and the instance of input 1 has mem_inv[0] as
\* its enable
C23_Witness ==
  /\ gen_pc = "done" /\ pc = "returned"
  /\ IsSizeT(datapath_id, 1)
  /\ graph_edges[1] = {[mem |-> 0, inv |-> TRUE]}
  /\ raw_bitstream[1] = FALSE
  /\ tgates[2].in = 1
  /\ tgates[2].sel = [port |-> "mem_inv", pin |-> 0]

(* -------------------------------- C24 ---------------------------------- *)
\* a call on a graph of one level of four memories has returned the encoded
\* bits, and the memory set in the raw bits is the one at position 3
PositionThreeOfFour ==
  /\ IsCmos /\ pc = "returned" /\ circuit_model.use_local_encoder
  /\ Len(mux_graph.levels) = 1
  /\ Len(mux_graph.levels[1]) = 4
  /\ SetPositions(raw_bitstream, mux_graph.levels[1]) = {3}

ChannelNodes == {k \in 1..Len(rr_graph) : rr_graph[k].type \in {"CHANX", "CHANY"}}

\* every CHANX or CHANY node has a direction other than BIDIR and NONE
AllTracksDirected ==
  \A k \in ChannelNodes : rr_graph[k].direction \notin {"BIDIR", "NONE"}

\* C25: once is_vpr_rr_graph_supported has returned, it has returned true
\* exactly when every CHANX or CHANY node of the graph has a direction that
\* is neither BIDIR nor NONE; the nodes of another type have no part in it
C25_SupportedIffTracksDirected ==
  rr_supported # "none" => (rr_supported = "true" <=> AllTracksDirected)

\* true is returned on a graph with a SOURCE node of direction BIDIR and a
\* directed CHANX node
C25_Witness ==
  /\ rr_supported = "true"
  /\ \E k \in 1..Len(rr_graph) :
        rr_graph[k].type = "SOURCE" /\ rr_graph[k].direction = "BIDIR"
  /\ \E k \in 1..Len(rr_graph) :
        rr_graph[k].type = "CHANX" /\ rr_graph[k].direction = "INC"

\* false is returned on a graph with a CHANY node without direction
C25_WitnessUnsupported ==
  /\ rr_supported = "false"
  /\ \E k \in 1..Len(rr_graph) :
        rr_graph[k].type = "CHANY" /\ rr_graph[k].direction = "NONE"

(* -------------------------------- C26 ---------------------------------- *)
\* the builders of the routing annotation that come after the check
BuildersAfterCheck ==
  {"build_in_edges", "annotate_device_rr_gsb", "build_device_mux_library"}

\* C26: once the graph is found unsupported link_arch does nothing but
\* return CMD_EXEC_FATAL_ERROR, having called none of build_in_edges,
\* annotate_device_rr_gsb and build_device_mux_library; no step changes
\* the multiplexer library unless the check has passed, and the library is
\* built in a step taken after the check has passed; a run that has
\* returned CMD_EXEC_SUCCESS has passed the check and built the library
C26_UnsupportedStopsBeforeBuilding ==
  /\ [](rr_supported = "false"
        => /\ link_pc \in {"checked", "returned"}
           /\ link_pc = "returned" => link_status = "CMD_EXEC_FATAL_ERROR"
           /\ link_calls \cap BuildersAfterCheck = {})
  /\ [][rr_supported' # "true" => mux_lib' = mux_lib]_vars
  /\ [][("build_device_mux_library" \in link_calls'
          /\ "build_device_mux_library" \notin link_calls)
        => (rr_supported = "true"
            /\ {"build_in_edges", "annotate_device_rr_gsb"} \subseteq link_calls)]_vars
  /\ [](link_status = "CMD_EXEC_SUCCESS"
        => /\ rr_supported = "true"
           /\ "build_device_mux_library" \in link_calls)

\* link_arch has returned CMD_EXEC_FATAL_ERROR on a graph with a
\* bidirectional CHANX node, with the library of the earlier run in place
C26_Witness ==
  /\ link_pc = "returned"
  /\ link_status = "CMD_EXEC_FATAL_ERROR"
  /\ rr_supported = "false"
  /\ \E k \in 1..Len(rr_graph) :
        rr_graph[k].type = "CHANX" /\ rr_graph[k].direction = "BIDIR"
  /\ link_calls = {}
  /\ mux_lib.size = 1

\* link_arch has returned CMD_EXEC_SUCCESS with a library of another size
C26_WitnessSuccess ==
  /\ link_pc = "returned"
  /\ link_status = "CMD_EXEC_SUCCESS"
  /\ "build_device_mux_library" \in link_calls
  /\ mux_lib.size = 2

(* -------------------------------- C27 ---------------------------------- *)
\* some level of the graph has three or more memories
SomeWideLevel ==
  \E lvl \in 1..Len(mux_graph.levels) : Len(mux_graph.levels[lvl]) >= 3

\* C27: the bitstream a call returns with the local encoder is no longer
\* than the raw bitstream it was encoded from, and is shorter when some
\* level of the graph has three or more memories
C27_EncodingNeverLengthens ==
  (IsCmos /\ pc = "returned" /\ circuit_model.use_local_encoder)
  => /\ Len(raw_bitstream) = num_memory_bits(mux_graph)
     /\ Len(mux_bitstream) <= Len(raw_bitstream)
     /\ SomeWideLevel => Len(mux_bitstream) < Len(raw_bitstream)

\* the three raw bits of a graph of one level are returned as two
C27_Witness ==
  /\ IsCmos /\ pc = "returned" /\ circuit_model.use_local_encoder
  /\ mux_graph.levels = <<<<0, 1, 2>>>>
  /\ Len(raw_bitstream) = 3
  /\ Len(mux_bitstream) = 2

(* -------------------------------- C28 ---------------------------------- *)
\* the bits of the returned bitstream that encode a level
BitsOfLevel(lvl) ==
  SubSeq(mux_bitstream, WidthsUpTo(lvl - 1) + 1, WidthsUpTo(lvl))

\* the memories of a level are all false in the raw bits, or the one at
\* position 0 alone is true
NoneOrFirstSet(lvl) ==
  SetPositions(raw_bitstream, mux_graph.levels[lvl]) \in {{}, {0}}

\* C28: in a returned encoded bitstream the bits of a level of two or more
\* memories are the same, all false, when no memory of the level is set in
\* the raw bits and when the memory at position 0 alone is set; so raw
\* bitstreams that differ in that memory are returned as the same bits
C28_NoneAndFirstEncodedAlike ==
  (IsCmos /\ pc = "returned" /\ circuit_model.use_local_encoder)
  => \A lvl \in 1..Len(mux_graph.levels) :
        (Len(mux_graph.levels[lvl]) >= 2 /\ NoneOrFirstSet(lvl))
        => /\ Len(BitsOfLevel(lvl)) = CeilLog2(Len(mux_graph.levels[lvl]))
           /\ \A i \in 1..Len(BitsOfLevel(lvl)) : BitsOfLevel(lvl)[i] = FALSE

\* a level of two memories with no memory set is returned as one false bit
C28_Witness ==
  /\ IsCmos /\ pc = "returned" /\ circuit_model.use_local_encoder
  /\ mux_graph.levels = <<<<0, 1>>>>
  /\ raw_bitstream = <<FALSE, FALSE>>
  /\ mux_bitstream = <<FALSE>>

\* the same level with the memory at position 0 set is returned as the same
\* one false bit
C28_WitnessFirstSet ==
  /\ IsCmos /\ pc = "returned" /\ circuit_model.use_local_encoder
  /\ mux_graph.levels = <<<<0, 1>>>>
  /\ raw_bitstream = <<TRUE, FALSE>>
  /\ mux_bitstream = <<FALSE>>

(* -------------------------------- C29 ---------------------------------- *)
\* the call was made with a negative path_id that is not DEFAULT_PATH_ID
NegativeExplicitPath ==
  IsCmos /\ pc \notin {"idle", "cmos"} /\ path_id < 0 /\ path_id # DEFAULT_PATH_ID

\* C29: a call with a negative path_id other than DEFAULT_PATH_ID ends the
\* process at the lookup of the graph or at the check of the path id, with
\* no bit decoded or returned; at the check of the path id the datapath
\* index has its top bit set, that is, it is at least 2^63
C29_NegativePathRejected ==
  NegativeExplicitPath
  => /\ pc = "fatal"
     /\ fatal_at \in {"lookup", "path_id"}
     /\ fatal_at = "path_id" => datapath_id[SizeTLimbs] >= LimbBase \div 2
     /\ raw_bitstream = <<>>
     /\ mux_bitstream = <<>>

\* path_id -2 on a multiplexer whose graph is found: the index is 2^64 - 2
\* and the check of the path id fails
C29_Witness ==
  /\ NegativeExplicitPath
  /\ path_id = -2
  /\ mux_lib.size = mux_size
  /\ mux_size = MaxMuxSize
  /\ fatal_at = "path_id"
  /\ datapath_id = <<LimbBase - 2, LimbBase - 1, LimbBase - 1, LimbBase - 1>>

(* -------------------------------- C30 ---------------------------------- *)
\* two invocations on a CMOS model without constant input have returned,
\* for one multiplexer size: the one running asked for the default path,
\* the other for path_id 0
DefaultAndFirstReturned ==
  /\ IsCmos /\ ~circuit_model.add_const_input
  /\ pc = "returned" /\ suspended.pc = "returned"
  /\ mux_size = suspended.mux_size
  /\ path_id = DEFAULT_PATH_ID
  /\ suspended.path_id = 0

\* C30: on a CMOS model without constant input the invocation that asked
\* for the default path and the one that asked for path_id 0 of the same
\* multiplexer size select the same input and return the same bitstream,
\* with the local encoder and without it
C30_DefaultAsPathZero ==
  DefaultAndFirstReturned
  => /\ datapath_id = suspended.datapath_id
     /\ raw_bitstream = suspended.raw_bitstream
     /\ mux_bitstream = suspended.mux_bitstream

\* both invocations have returned the one true bit of input 0 of a
\* multiplexer of size 2
C30_Witness ==
  /\ DefaultAndFirstReturned
  /\ mux_size = 2
  /\ mux_bitstream = <<TRUE>>
  /\ suspended.mux_bitstream = <<TRUE>>

====
